---- MODULE Spec2Model ----
(***************************************************************************)
(* Model of tutorials/agent-security-with-llamafirewall/input-guardrail    *)
(* (a notebook): the credential check, the construction of the scanner and *)
(* of the agent, the guardrail adapter llamafirewall_check_input, and an   *)
(* agent turn (Runner.run) as the notebook uses and documents it.          *)
(*                                                                         *)
(* Strings are sequences of characters.  An optional value is a sequence   *)
(* of length 0 (absent) or 1 (present).  A score k stands for k/ScoreScale, *)
(* so the interval [0,1] is 0..ScoreScale.                                  *)
(***************************************************************************)
EXTENDS Integers, Sequences, FiniteSets, TLC

\* ---------------------------------------------------------------- bounds
MaxStrLen == 1
MaxItems == 2
MaxTurns == 2
ScoreScale == 2

\* ------------------------------------------------------------ value sets
Chars == {"a", " "}

Strings == UNION {[1..n -> Chars] : n \in 0..MaxStrLen}

\* Role of a message item of a list-typed input
Roles == {"user", "system", "assistant"}

Items == [role : Roles, content : Strings]

ItemLists == UNION {[1..n -> Items] : n \in 0..MaxItems}

\* input: str | List[TResponseInputItem]
Inputs == [kind : {"str"}, value : Strings] \cup [kind : {"list"}, value : ItemLists]

\* What the notebook passes to Runner.run: a text
NotebookInputs == [kind : {"str"}, value : Strings]

\* ScanDecision values of the configured scanner
ALLOW == "allow"

BLOCK == "block"

ScanDecisions == {ALLOW, BLOCK}

Scores == 0..ScoreScale

Reasons == {"likely injection", "no issue"}

\* What lf.scan can return
ScanResults == [decision : ScanDecisions, score : Scores, reason : Reasons]

\* os.environ.get("OPENAI_API_KEY") after load_dotenv(): None, "" or a key
None == "None"

KeyValues == {None, "", "sk"}

VARIABLES
  env,        \* value of OPENAI_API_KEY in the environment
  pc,         \* position of the notebook
  printed,    \* set of lines printed so far
  lf,         \* TRUE once LlamaFirewall(...) has been constructed
  agent,      \* <<>> or <<the Agent>>
  turns,      \* number of Runner.run calls started
  input,      \* <<>> or <<input of the current turn>>
  gpc,        \* guardrail task: "idle", "scanning", "returned", "raised"
  scanLog,    \* messages handed to lf.scan in the current turn
  result,     \* <<>> or <<ScanResult of the current turn>>
  gOut,       \* <<>> or <<GuardrailFunctionOutput of the current turn>>
  prevOut,    \* <<>> or <<GuardrailFunctionOutput of the previous turn>>
  mpc,        \* model call: "idle", "running", "done", "cancelled"
  mAtResult,  \* mpc at the moment the scan result became available
  response,   \* <<>> or <<RunResult>>
  exc         \* <<>> or <<InputGuardrailTripwireTriggered payload>>

vars == <<env, pc, printed, lf, agent, turns, input, gpc, scanLog, result,
          gOut, prevOut, mpc, mAtResult, response, exc>>

turnVars == <<input, gpc, scanLog, result, gOut, prevOut, mpc, mAtResult,
              response, exc>>

\* ------------------------------------------------------- pure functions
\* Bug variant: only an unset variable counts as missing ("is None")
Truthy_OnlyUnset(v) == v # None

\* Python truthiness of os.environ.get(...): None and "" are falsy
Truthy(v) == v # None /\ v # ""

RECURSIVE Join_Trailing(_, _)
\* Bug variant: the separator is appended after every element
Join_Trailing(sep, strs) ==
  IF Len(strs) = 0 THEN <<>>
  ELSE strs[1] \o sep \o Join_Trailing(sep, Tail(strs))

RECURSIVE Join(_, _)
\* sep.join(strs)
Join(sep, strs) ==
  IF Len(strs) = 0 THEN <<>>
  ELSE IF Len(strs) = 1 THEN strs[1]
  ELSE strs[1] \o sep \o Join(sep, Tail(strs))

\* [item.content for item in input]
Contents(items) == [i \in 1..Len(items) |-> items[i].content]

\* input_text: " ".join(...) for a list, str(input) otherwise
InputText(inp) ==
  IF inp.kind = "list" THEN Join(<<" ">>, Contents(inp.value))
  ELSE inp.value

\* Bug variant: the message is built with the system role
UserMessage_System(content) == [role |-> "system", content |-> content]

\* UserMessage(content=input_text)
UserMessage(content) == [role |-> "user", content |-> content]

\* Bug variant: the label is the enum's name, str(result.decision)
LlamaFirewallOutput_EnumName(res) ==
  [is_harmful |-> (res.decision = BLOCK),
   score      |-> res.score,
   decision   |-> IF res.decision = BLOCK THEN "ScanDecision.BLOCK"
                  ELSE "ScanDecision.ALLOW",
   reasoning  |-> res.reason]

\* Bug variant: the adapter keeps the highest score seen in earlier calls
LlamaFirewallOutput_Stale(res) ==
  [is_harmful |-> (res.decision = BLOCK),
   score      |-> IF prevOut # <<>> /\ prevOut[1].output_info.score > res.score
                  THEN prevOut[1].output_info.score ELSE res.score,
   decision   |-> res.decision,
   reasoning  |-> res.reason]

\* LlamaFirewallOutput(is_harmful=..., score=..., decision=..., reasoning=...)
LlamaFirewallOutput(res) ==
  [is_harmful |-> (res.decision = BLOCK),
   score      |-> res.score,
   decision   |-> res.decision,
   reasoning  |-> res.reason]

\* Bug variant: the tripwire is decided by a score threshold
GuardrailFunctionOutput_Threshold(res) ==
  [output_info        |-> LlamaFirewallOutput(res),
   tripwire_triggered |-> (2 * res.score > ScoreScale)]

\* Bug variant: the comparison is inverted
GuardrailFunctionOutput_Inverted(res) ==
  [output_info        |-> LlamaFirewallOutput(res),
   tripwire_triggered |-> (res.decision # BLOCK)]

\* Bug variant: the tripwire is never set, whatever the decision
GuardrailFunctionOutput_NoTrip(res) ==
  [output_info        |-> LlamaFirewallOutput(res),
   tripwire_triggered |-> FALSE]

\* GuardrailFunctionOutput(output_info=output, tripwire_triggered=...)
GuardrailFunctionOutput(res) ==
  [output_info        |-> LlamaFirewallOutput(res),
   tripwire_triggered |-> (res.decision = BLOCK)]

\* Bug variant: the adapter itself raises on a block decision
CheckInputEnd_Raises(res) ==
  [raised |-> (res.decision = BLOCK), value |-> GuardrailFunctionOutput(res)]

\* How llamafirewall_check_input ends once lf.scan has returned res:
\* it has no raise statement, it returns the GuardrailFunctionOutput
CheckInputEnd(res) == [raised |-> FALSE, value |-> GuardrailFunctionOutput(res)]

\* ----------------------------------------------------------------- Init
Init ==
  /\ env \in KeyValues
  /\ pc = "start"
  /\ printed = {}
  /\ lf = FALSE
  /\ agent = <<>>
  /\ turns = 0
  /\ input = <<>>
  /\ gpc = "idle"
  /\ scanLog = <<>>
  /\ result = <<>>
  /\ gOut = <<>>
  /\ prevOut = <<>>
  /\ mpc = "idle"
  /\ mAtResult = "idle"
  /\ response = <<>>
  /\ exc = <<>>

\* -------------------------------------------------------------- actions
\* Cell 1: credential missing -> diagnostic and exit(1)
CheckKeyMissing ==
  /\ pc = "start"
  /\ ~Truthy(env)
  /\ printed' = printed \cup {"OPENAI_API_KEY environment variable is not set"}
  /\ pc' = "exited"
  /\ UNCHANGED <<env, lf, agent, turns, turnVars>>

\* Cell 1: credential present
CheckKeySet ==
  /\ pc = "start"
  /\ Truthy(env)
  /\ printed' = printed \cup {"OPENAI_API_KEY is set"}
  /\ pc' = "key_ok"
  /\ UNCHANGED <<env, lf, agent, turns, turnVars>>

\* lf = LlamaFirewall(scanners={...})
InitFirewall ==
  /\ pc = "key_ok"
  /\ lf' = TRUE
  /\ pc' = "lf_ready"
  /\ UNCHANGED <<env, printed, agent, turns, turnVars>>

\* agent = Agent(..., input_guardrails=[llamafirewall_check_input], ...)
CreateAgent ==
  /\ pc = "lf_ready"
  /\ agent' = <<[name |-> "Safe Assistant",
                 input_guardrails |-> <<"llamafirewall_check_input">>,
                 model |-> "gpt-3.5-turbo"]>>
  /\ pc' = "idle"
  /\ UNCHANGED <<env, printed, lf, turns, turnVars>>

\* await Runner.run(agent, inp): a turn starts
RunnerRun(inp) ==
  /\ pc = "idle"
  /\ turns < MaxTurns
  /\ turns' = turns + 1
  /\ input' = <<inp>>
  /\ prevOut' = gOut
  /\ gpc' = "idle"
  /\ scanLog' = <<>>
  /\ result' = <<>>
  /\ gOut' = <<>>
  /\ mpc' = "idle"
  /\ mAtResult' = "idle"
  /\ response' = <<>>
  /\ exc' = <<>>
  /\ pc' = "turn"
  /\ UNCHANGED <<env, printed, lf, agent>>

\* The runner invokes the guardrail; the adapter normalises the input,
\* builds the UserMessage and calls lf.scan, which blocks until it returns
GuardrailCall ==
  /\ pc = "turn"
  /\ gpc = "idle"
  /\ scanLog' = Append(scanLog, UserMessage(InputText(input[1])))
  /\ gpc' = "scanning"
  /\ UNCHANGED <<env, pc, printed, lf, agent, turns, input, result, gOut,
                 prevOut, mpc, mAtResult, response, exc>>

\* lf.scan returns res; the adapter builds its output and ends
ScanReturn(res) ==
  /\ pc = "turn"
  /\ gpc = "scanning"
  /\ result' = <<res>>
  /\ mAtResult' = mpc
  /\ LET e == CheckInputEnd(res) IN
       IF e.raised
       THEN /\ gpc' = "raised"
            /\ pc' = "failed"
            /\ gOut' = gOut
       ELSE /\ gpc' = "returned"
            /\ pc' = pc
            /\ gOut' = <<e.value>>
  /\ UNCHANGED <<env, printed, lf, agent, turns, input, scanLog, prevOut,
                 mpc, response, exc>>

\* Guardrails run in parallel to the agent: the model call may start
\* whether or not the guardrail has finished
ModelStart ==
  /\ pc = "turn"
  /\ mpc = "idle"
  /\ mpc' = "running"
  /\ UNCHANGED <<env, pc, printed, lf, agent, turns, input, gpc, scanLog,
                 result, gOut, prevOut, mAtResult, response, exc>>

\* The model call completes
ModelFinish ==
  /\ pc = "turn"
  /\ mpc = "running"
  /\ mpc' = "done"
  /\ UNCHANGED <<env, pc, printed, lf, agent, turns, input, gpc, scanLog,
                 result, gOut, prevOut, mAtResult, response, exc>>

\* tripwire_triggered is True: the agent stops and throws
\* InputGuardrailTripwireTriggered, which stops the model from running
TripwireRaise ==
  /\ pc = "turn"
  /\ gpc = "returned"
  /\ gOut[1].tripwire_triggered
  /\ exc' = <<[guardrail_result |-> gOut[1]]>>
  /\ mpc' = IF mpc = "running" THEN "cancelled" ELSE mpc
  /\ pc' = "raised"
  /\ UNCHANGED <<env, printed, lf, agent, turns, input, gpc, scanLog, result,
                 gOut, prevOut, mAtResult, response>>

\* Bug variant: the response is returned without waiting for the guardrail
RunnerReturn_NoWait ==
  /\ pc = "turn"
  /\ mpc = "done"
  /\ response' = <<[final_output |-> "answer", input_guardrail_results |-> gOut]>>
  /\ pc' = "returned"
  /\ UNCHANGED <<env, printed, lf, agent, turns, input, gpc, scanLog, result,
                 gOut, prevOut, mpc, mAtResult, exc>>

\* The tripwire is not triggered and the model has answered:
\* Runner.run returns the RunResult
RunnerReturn ==
  /\ pc = "turn"
  /\ gpc = "returned"
  /\ ~gOut[1].tripwire_triggered
  /\ mpc = "done"
  /\ response' = <<[final_output |-> "answer", input_guardrail_results |-> <<gOut[1]>>]>>
  /\ pc' = "returned"
  /\ UNCHANGED <<env, printed, lf, agent, turns, input, gpc, scanLog, result,
                 gOut, prevOut, mpc, mAtResult, exc>>

\* try-branch of the cell after Runner.run returned
PrintResponse ==
  /\ pc = "returned"
  /\ printed' = printed \cup {"Guardrail didn't trip"}
  /\ pc' = "idle"
  /\ UNCHANGED <<env, lf, agent, turns, turnVars>>

\* except InputGuardrailTripwireTriggered as e
PrintTripped ==
  /\ pc = "raised"
  /\ printed' = printed \cup {"LlamaFirewall guardrail tripped"}
  /\ pc' = "idle"
  /\ UNCHANGED <<env, lf, agent, turns, turnVars>>

Next ==
  \/ CheckKeyMissing
  \/ CheckKeySet
  \/ InitFirewall
  \/ CreateAgent
  \/ \E inp \in NotebookInputs : RunnerRun(inp)
  \/ GuardrailCall
  \/ \E res \in ScanResults : ScanReturn(res)
  \/ ModelStart
  \/ ModelFinish
  \/ TripwireRaise
  \/ RunnerReturn
  \/ PrintResponse
  \/ PrintTripped

Spec == Init /\ [][Next]_vars

\* The event loop runs every task of a turn to its end
FairSpec ==
  /\ Spec
  /\ WF_vars(GuardrailCall)
  /\ WF_vars(\E res \in ScanResults : ScanReturn(res))
  /\ WF_vars(ModelStart)
  /\ WF_vars(ModelFinish)
  /\ WF_vars(TripwireRaise)
  /\ WF_vars(RunnerReturn)

\* The adapter on its own: llamafirewall_check_input is called once, in
\* the state the notebook has set up, on any input its signature accepts
AdapterInit ==
  /\ env = "sk"
  /\ pc = "turn"
  /\ printed = {"OPENAI_API_KEY is set"}
  /\ lf = TRUE
  /\ agent = <<[name |-> "Safe Assistant",
                input_guardrails |-> <<"llamafirewall_check_input">>,
                model |-> "gpt-3.5-turbo"]>>
  /\ turns = 1
  /\ input \in {<<inp>> : inp \in Inputs}
  /\ gpc = "idle"
  /\ scanLog = <<>>
  /\ result = <<>>
  /\ gOut = <<>>
  /\ prevOut = <<>>
  /\ mpc = "idle"
  /\ mAtResult = "idle"
  /\ response = <<>>
  /\ exc = <<>>

AdapterNext ==
  \/ GuardrailCall
  \/ \E res \in ScanResults : ScanReturn(res)

AdapterSpec == AdapterInit /\ [][AdapterNext]_vars

TypeOK ==
  /\ env \in KeyValues
  /\ pc \in {"start", "exited", "key_ok", "lf_ready", "idle", "turn",
             "returned", "raised", "failed"}
  /\ lf \in BOOLEAN
  /\ turns \in 0..MaxTurns
  /\ \A k \in 1..Len(input) : input[k] \in Inputs
  /\ Len(input) <= 1
  /\ gpc \in {"idle", "scanning", "returned", "raised"}
  /\ mpc \in {"idle", "running", "done", "cancelled"}
  /\ Len(gOut) <= 1 /\ Len(result) <= 1 /\ Len(response) <= 1 /\ Len(exc) <= 1

\* ================================================================ claims
HasOut == gOut # <<>>

HasResult == result # <<>>

\* C1: the returned GuardrailFunctionOutput has tripwire_triggered = TRUE
\* if and only if the scanner's decision of that call is block.
C1_TripwireIffBlock ==
  HasOut => (gOut[1].tripwire_triggered <=> (result[1].decision = BLOCK))

\* A block with a low score has been returned (tripwire set), after an
\* allow with a high score would not have set it
C1_Witness ==
  /\ HasOut
  /\ result[1].decision = BLOCK
  /\ result[1].score = 0
  /\ gOut[1].tripwire_triggered

C2_AbortState ==
  (HasResult /\ result[1].decision = BLOCK) =>
    /\ HasOut /\ gOut[1].tripwire_triggered
    /\ response = <<>>
    /\ pc \notin {"returned", "failed"}
    /\ exc # <<>> =>
         /\ exc[1].guardrail_result = gOut[1]
         /\ exc[1].guardrail_result.output_info.decision = BLOCK
         /\ exc[1].guardrail_result.output_info.score = result[1].score
         /\ exc[1].guardrail_result.output_info.reasoning = result[1].reason
         /\ mpc # "running"
    /\ pc = "idle" => exc # <<>>

TurnEnded == pc \in {"returned", "raised"} \/ (pc = "idle" /\ turns > 0)

\* The state part of C4: on an allow decision the tripwire is not set and
\* there is no abort; a response and an abort never coexist; a turn that
\* has ended has exactly one of them.
C4_OutcomeState ==
  /\ (HasResult /\ result[1].decision = ALLOW) =>
       /\ HasOut /\ ~gOut[1].tripwire_triggered
       /\ exc = <<>>
       /\ pc # "raised"
  /\ ~(response # <<>> /\ exc # <<>>)
  /\ TurnEnded => (response # <<>> \/ exc # <<>>)
  /\ pc # "failed"

\* C4: for any benign input (decision allow) the tripwire is not set and
\* the runner proceeds to the model call and delivers the response; every
\* turn ends with exactly one of response and abort.
C4_AllowResponds ==
  /\ []C4_OutcomeState
  /\ (HasResult /\ result[1].decision = ALLOW) ~> (response # <<>>)
  /\ (pc = "turn") ~> TurnEnded

\* A response delivered for an allow decision, the model call having
\* started only after the scan result
C4_Witness ==
  /\ pc = "returned"
  /\ response # <<>>
  /\ result[1].decision = ALLOW
  /\ mAtResult = "idle"

RECURSIVE Offset(_, _)
\* Position before the i-th content when every earlier content is
\* followed by one separator character
Offset(cs, i) == IF i = 1 THEN 0 ELSE Offset(cs, i - 1) + Len(cs[i - 1]) + 1

\* t consists of the strings cs in order, one space between neighbours,
\* nothing before the first and nothing after the last
SpaceJoined(t, cs) ==
  LET n == Len(cs) IN
    /\ Len(t) = IF n = 0 THEN 0 ELSE Offset(cs, n) + Len(cs[n])
    /\ \A i \in 1..n :
         /\ SubSeq(t, Offset(cs, i) + 1, Offset(cs, i) + Len(cs[i])) = cs[i]
         /\ i < n => t[Offset(cs, i) + Len(cs[i]) + 1] = " "

\* C5: for a list input the text handed to the scanner is the items'
\* contents in order joined by single spaces (empty list: empty string;
\* one item: its content); for a text input it is that text unchanged.
C5_ScannedText ==
  \A k \in 1..Len(scanLog) :
    LET t == scanLog[k].content
        inp == input[1] IN
      IF inp.kind = "list"
      THEN /\ SpaceJoined(t, [i \in 1..Len(inp.value) |-> inp.value[i].content])
           /\ Len(inp.value) = 0 => t = <<>>
           /\ Len(inp.value) = 1 => t = inp.value[1].content
      ELSE t = inp.value

\* A two-item list with non-empty contents has been scanned
C5_Witness ==
  /\ Len(scanLog) = 1
  /\ input[1].kind = "list"
  /\ Len(input[1].value) = 2
  /\ input[1].value[1].content = <<"a">>
  /\ input[1].value[2].content = <<" ">>
  /\ scanLog[1].content = <<"a", " ", " ">>

\* C6: each call of the adapter hands exactly one message to the scanner,
\* and that message has the user role whatever the roles of the items.
C6_OneUserScan ==
  /\ gpc = "idle" => Len(scanLog) = 0
  /\ gpc # "idle" => Len(scanLog) = 1
  /\ \A k \in 1..Len(scanLog) : scanLog[k].role = "user"

\* The adapter returned for a list input with a system and an assistant item
C6_Witness ==
  /\ gpc = "returned"
  /\ input[1].kind = "list"
  /\ Len(input[1].value) = 2
  /\ input[1].value[1].role = "system"
  /\ input[1].value[2].role = "assistant"
  /\ Len(scanLog) = 1
  /\ scanLog[1].role = "user"

\* C7: with OPENAI_API_KEY unset or empty the notebook prints a diagnostic
\* and exits; the scanner is never constructed or invoked and no turn runs.
C7_MissingKeyNoScan ==
  (env = None \/ env = "") =>
    /\ lf = FALSE
    /\ agent = <<>>
    /\ turns = 0
    /\ scanLog = <<>> /\ ~HasResult /\ ~HasOut
    /\ pc \in {"start", "exited"}
    /\ pc = "exited" =>
         "OPENAI_API_KEY environment variable is not set" \in printed

\* The notebook has exited on an empty credential
C7_Witness ==
  /\ env = ""
  /\ pc = "exited"
  /\ "OPENAI_API_KEY environment variable is not set" \in printed

C9_AdapterReturns ==
  /\ gpc # "raised" /\ pc # "failed"
  /\ HasResult => (gpc = "returned" /\ HasOut)
  /\ (HasResult /\ result[1].decision = BLOCK) => gOut[1].tripwire_triggered
  /\ exc # <<>> => (gpc = "returned" /\ pc \in {"raised", "idle"})

\* The adapter has returned on a block decision and the runner has not
\* raised yet
C9_Witness ==
  /\ pc = "turn"
  /\ gpc = "returned"
  /\ result[1].decision = BLOCK
  /\ gOut[1].tripwire_triggered
  /\ exc = <<>>

\* C10: output_info copies the scan result of the same call (score,
\* decision, reason), is_harmful equals tripwire_triggered, and nothing of
\* an earlier call enters the record.
C10_FaithfulCopy ==
  HasOut =>
    /\ gOut[1].output_info.score = result[1].score
    /\ gOut[1].output_info.decision = result[1].decision
    /\ gOut[1].output_info.reasoning = result[1].reason
    /\ gOut[1].output_info.is_harmful = gOut[1].tripwire_triggered

\* A second call whose scan result is an allow with score 0, after a call
\* that ended in a block with the top score
C10_Witness ==
  /\ HasOut
  /\ prevOut # <<>>
  /\ prevOut[1].output_info.score = ScoreScale
  /\ prevOut[1].tripwire_triggered
  /\ gOut[1].output_info.score = 0
  /\ ~gOut[1].tripwire_triggered

====
